---- MODULE Spec2Model ----
(***************************************************************************)
(* State-machine model of the graph server of isaac-400/cs81-final        *)
(* (src/src/voronoi/graph_server.py): class Server with its map           *)
(* subscriber callback, its Trigger service callback and the graph        *)
(* pipeline compute_graph.                                                 *)
(*                                                                         *)
(* Python values are represented as follows.                               *)
(*   None                      <<>>                                        *)
(*   a non-None reference v    <<v>>      (Some(v), read back with Val)    *)
(*   a coordinate tuple (x,y)  <<x, y>>                                    *)
(*   an int inside a node's    <<k>>      (IdRef(k)); "type(n) is tuple"   *)
(*     neighbors set                       is IsTuple(n), Len(n) = 2       *)
(*   a list                    a sequence (Python index i is TLA+ i + 1)   *)
(*   a node dict               [x, y, id, neighbors]                       *)
(*   a numpy array             [shape |-> <<rows, cols>>, ...]             *)
(***************************************************************************)
EXTENDS Integers, Sequences, FiniteSets, TLC

None == <<>>
Some(v) == <<v>>
Val(o) == o[1]

IdRef(k) == <<k>>
IsTuple(n) == Len(n) = 2

\* A list built from a function on 1..n, as an explicit sequence.
List(f, n) == SubSeq(f, 1, n)

\* F applied to the value of v.  v is evaluated once, here; an operator
\* argument or a LET definition is an expression that TLC may evaluate again
\* at each use (it does when it computes ENABLED).
Bind(v, F(_)) == CHOOSE r \in {F(x) : x \in {v}} : TRUE

Max(a, b) == IF a >= b THEN a ELSE b
Min(a, b) == IF a <= b THEN a ELSE b

(***************************************************************************)
(* Program constants.                                                      *)
(***************************************************************************)
\* compute_graph line 88: self._prune_graph(graph, 100)
PRUNE_THRESH == 100
\* compute_graph line 80: for i in range(10)
PASSES == 10

(***************************************************************************)
(* eight_neighbors (lines 253-276).  The code unpacks                      *)
(* "width, height = map.shape"; numpy's shape is (rows, cols), so "width"  *)
(* is the row count and "height" the column count.                         *)
(***************************************************************************)
EightNeighbors(c, shape) ==
  LET x == c[1]
      y == c[2]
      width == shape[1]
      height == shape[2]
      N  == <<x, Max(0, y - 1)>>
      NE == <<Min(width - 1, x + 1), Max(0, y - 1)>>
      E  == <<Min(width - 1, x + 1), y>>
      SE == <<Min(width - 1, x + 1), Min(height - 1, y + 1)>>
      S  == <<x, Min(height - 1, y + 1)>>
      SW == <<Max(0, x - 1), Min(height - 1, y + 1)>>
      W  == <<Max(0, x - 1), y>>
      NW == <<Max(0, x - 1), Max(0, y - 1)>>
      ds == <<N, NE, E, SE, S, SW, W, NW>>
  IN List([i \in 1..8 |-> IF ds[i] # c THEN ds[i] ELSE None], 8)

\* numpy indexing self._skel[(y, x)] (line 246) raises IndexError outside the
\* array; x and y are never negative here (eight_neighbors clamps at 0).
IndexInBounds(n, shape) == n[2] < shape[1] /\ n[1] < shape[2]

\* "neighbor in coords" (line 248): membership in a Python list.
InList(c, coords) == \E i \in 1..Len(coords) : coords[i] = c

(***************************************************************************)
(* _traverse (lines 224-250).  VisitNeighbors is one execution of the for  *)
(* loop of lines 242-250 over the eight neighbours of the popped pixel     *)
(* curr.  The loop handles a neighbour when it is not None and not in      *)
(* seen; within one execution that is Fresh(i): not seen before the pop    *)
(* and not equal to an earlier neighbour of the same pop (which line 245   *)
(* has added to seen by then).  The loop ends early at the first handled   *)
(* neighbour whose index is outside the array (line 246 raises) or which   *)
(* is a keypoint other than home (lines 248-250); otherwise every handled  *)
(* neighbour is added to seen and the skeleton-true ones are appended to   *)
(* q in loop order.  Walk is the while loop of lines 240-241; q.pop()      *)
(* takes the element appended last.  The outcome is                        *)
(*   kind = "found"      lines 249-250, "at" is the coordinate added       *)
(*   kind = "exhausted"  the queue ran empty                               *)
(*   kind = "IndexError" line 246 raised                                   *)
(***************************************************************************)
\* A variant of the test of line 248 without "neighbor != home"; C20 depends
\* on the difference.
IsLinkAnyKeypoint(n, homeXY, coords) == InList(n, coords)

\* line 248: neighbor in coords and neighbor != (home["x"], home["y"])
IsLink(n, homeXY, coords) == InList(n, coords) /\ n # homeXY

VisitNeighbors(curr, q, seen, homeXY, coords, sk) ==
  LET nbrs == EightNeighbors(curr, sk.shape)
      Fresh(i) == /\ nbrs[i] # None
                  /\ nbrs[i] \notin seen
                  /\ \A j \in 1..(i - 1) : nbrs[j] # nbrs[i]
      Raises(i) == ~IndexInBounds(nbrs[i], sk.shape)
      Links(i) == IsLink(nbrs[i], homeXY, coords)
      stops == {i \in 1..8 : Fresh(i) /\ (Raises(i) \/ Links(i))}
      pushed == SelectSeq(<<1, 2, 3, 4, 5, 6, 7, 8>>,
                          LAMBDA i : Fresh(i) /\ nbrs[i] \in sk.pix)
  IN IF stops = {}
     THEN [kind |-> "continue",
           q |-> q \o List([k \in 1..Len(pushed) |-> nbrs[pushed[k]]], Len(pushed)),
           seen |-> seen \cup {nbrs[i] : i \in {j \in 1..8 : Fresh(j)}},
           at |-> None]
     ELSE LET i == CHOOSE m \in stops : \A o \in stops : m <= o
          IN IF Raises(i)
             THEN [kind |-> "IndexError", q |-> q, seen |-> seen, at |-> None]
             ELSE [kind |-> "found", q |-> q, seen |-> seen, at |-> nbrs[i]]

\* One iteration of the while loop of lines 240-250 on the walk state w.
WalkStep(w, homeXY, coords, sk) ==
  IF w.kind # "continue" THEN w
  ELSE IF Len(w.q) = 0
  THEN [kind |-> "exhausted", q |-> w.q, seen |-> w.seen, at |-> None]
  ELSE VisitNeighbors(w.q[Len(w.q)], SubSeq(w.q, 1, Len(w.q) - 1), w.seen,
                      homeXY, coords, sk)

\* The while loop, run in blocks of WalkBlock iterations: the nesting of the
\* evaluation grows with the number of blocks, not of iterations.
WalkBlock == 24

RECURSIVE WalkSteps(_, _, _, _, _)
WalkSteps(w, n, homeXY, coords, sk) ==
  IF n = 0 \/ w.kind # "continue" THEN w
  ELSE WalkSteps(WalkStep(w, homeXY, coords, sk), n - 1, homeXY, coords, sk)

RECURSIVE Walk(_, _, _, _)
Walk(w, homeXY, coords, sk) ==
  IF w.kind # "continue" THEN w
  ELSE Walk(WalkSteps(w, WalkBlock, homeXY, coords, sk), homeXY, coords, sk)

\* _traverse: seen = set(), q = deque([start]) (lines 237-239), then the loop.
Traverse(start, homeXY, coords, sk) ==
  LET w == Walk([kind |-> "continue", q |-> <<start>>, seen |-> {}, at |-> None],
                homeXY, coords, sk)
  IN [kind |-> w.kind, at |-> w.at]

(***************************************************************************)
(* The inputs of the model.  The image pipeline of lines 63-70 is library  *)
(* code: skimage binary_dilation with a 40 x 40 square, scipy               *)
(* distance_transform_edt, skimage skeletonize (thinning of the cells      *)
(* whose distance exceeds half the mean), corner_harris and corner_peaks   *)
(* (peaks of the corner response above a tenth of its maximum, in          *)
(* row-major order, none on the border).  The model enumerates occupancy   *)
(* grids by the name of their cell contents and gives, for each, the       *)
(* skeleton of line 69 and the corner peaks of line 70.  A skeleton array  *)
(* is [shape |-> <<rows, cols>>, pix |-> the set of <<x, y>> with          *)
(* skel[(y, x)] > 0]; corner peaks are (row, col) pairs.  The corner       *)
(* response is negative along a straight run of the skeleton and has its   *)
(* peaks at the two ends of a line.  Every skeleton here is made of        *)
(* straight lines, the centre lines of the free regions, each shorter than *)
(* its region by about half the region's width at either end.              *)
(*   "annex":    300 x 300, occupied but for a corridor (rows 30..129,     *)
(*               every column) and a closed room (rows 170..269, columns   *)
(*               75..225): the centre line of the corridor and the centre  *)
(*               line of the room, 50 pixels long;                         *)
(*   "wide":     300 columns and 150 rows, occupied in rows 0..20 and      *)
(*               129..149: the centre line of the corridor, with one end   *)
(*               on either side of column 149;                             *)
(*   "deadend":  as "wide", and occupied from column 205 on: the centre    *)
(*               line of the corridor, which ends at column 149;           *)
(*   "occupied": 10 x 10, every cell occupied: the dilated grid has no     *)
(*               free cell, the distance field and its mean are 0, the     *)
(*               skeleton is empty and there is no peak.                   *)
(***************************************************************************)
SkeletonOf(grid) ==
  CASE grid.cells = "annex" ->
         [shape |-> grid.shape,
          pix |-> {<<x, 79>> : x \in 28..270} \cup {<<x, 219>> : x \in 124..174}]
    [] grid.cells = "wide" ->
         [shape |-> grid.shape, pix |-> {<<x, 74>> : x \in 30..268}]
    [] grid.cells = "deadend" ->
         [shape |-> grid.shape, pix |-> {<<x, 74>> : x \in 32..149}]
    [] OTHER -> [shape |-> grid.shape, pix |-> {}]

CornerPeaksOf(sk) ==
  CASE sk.pix = {<<x, 79>> : x \in 28..270} \cup {<<x, 219>> : x \in 124..174} ->
         << <<79, 28>>, <<79, 270>>, <<219, 124>>, <<219, 174>> >>
    [] sk.pix = {<<x, 74>> : x \in 30..268} -> << <<74, 30>>, <<74, 268>> >>
    [] sk.pix = {<<x, 74>> : x \in 32..149} -> << <<74, 32>>, <<74, 149>> >>
    [] OTHER -> <<>>

\* lines 73-75: coords.append((c[1], c[0])) for every corner c = (row, col).
CoordsOf(corners) ==
  List([i \in 1..Len(corners) |-> <<corners[i][2], corners[i][1]>>], Len(corners))

\* The occupancy-grid messages the map topic delivers:
\* [width, height, resolution, origin, data], data = [len, cells].  The
\* last one is malformed: 99 cells for a 10 x 10 grid.
MsgAnnex ==
  [width |-> 300, height |-> 300, resolution |-> 2, origin |-> <<10, 20>>,
   data |-> [len |-> 300 * 300, cells |-> "annex"]]
MsgWide ==
  [width |-> 300, height |-> 150, resolution |-> 4, origin |-> <<2, 6>>,
   data |-> [len |-> 300 * 150, cells |-> "wide"]]
MsgDeadEnd ==
  [width |-> 300, height |-> 150, resolution |-> 5, origin |-> <<-3, 4>>,
   data |-> [len |-> 300 * 150, cells |-> "deadend"]]
MsgOccupied ==
  [width |-> 10, height |-> 10, resolution |-> 3, origin |-> <<0, 0>>,
   data |-> [len |-> 100, cells |-> "occupied"]]
MsgMalformed ==
  [width |-> 10, height |-> 10, resolution |-> 7, origin |-> <<1, 1>>,
   data |-> [len |-> 99, cells |-> "occupied"]]
Msgs == {MsgAnnex, MsgWide, MsgDeadEnd, MsgOccupied, MsgMalformed}

\* The maps of the runs with several calling contexts: those with at most two
\* keypoints.
ConcMsgs == {MsgWide, MsgDeadEnd, MsgOccupied, MsgMalformed}

\* np.reshape(msg.data, (height, width)) (line 42): the array, or ValueError
\* (None here) when the data length is not height * width.
Reshape(data, height, width) ==
  IF data.len = height * width
  THEN Some([shape |-> <<height, width>>, cells |-> data.cells])
  ELSE None

(***************************************************************************)
(* _add_neighbors (lines 212-222).  NodeWalks is the inner loop of lines   *)
(* 220-222 for one node at homeXY: "u, v = neighbor" raises TypeError on a *)
(* None entry, otherwise the walk from that neighbour runs.  The result    *)
(* is [err, found]: the first exception raised ("" when none) and the      *)
(* coordinates the walks added to the node's neighbors; when a direction   *)
(* raises, those are what the walks of the directions before it added      *)
(* (line 249).                                                             *)
(***************************************************************************)
WalksOutcome(res) ==
  LET bad == {i \in 1..8 : res[i].kind \in {"TypeError", "IndexError"}}
  IN IF bad = {}
     THEN [err |-> "", found |-> {res[i].at : i \in {j \in 1..8 : res[j].kind = "found"}}]
     ELSE LET first == CHOOSE m \in bad : \A o \in bad : m <= o
          IN [err |-> res[first].kind,
              found |-> {res[i].at : i \in {j \in 1..(first - 1) : res[j].kind = "found"}}]

WalkFrom(n, homeXY, coords, sk) ==
  IF n = None THEN [kind |-> "TypeError", at |-> None]
  ELSE Traverse(n, homeXY, coords, sk)

NodeWalks(homeXY, coords, sk) ==
  WalksOutcome(List([i \in 1..8 |->
                       WalkFrom(EightNeighbors(homeXY, sk.shape)[i], homeXY, coords, sk)],
                    8))

\* The walks depend only on the node's coordinate, the coordinate list and the
\* skeleton.  WalkTable tabulates NodeWalks once for the skeletons and
\* coordinate lists of the enumerated grids (every sub-list of a grid's
\* keypoints, which is what pruning can leave); NodeOutcome reads the table and
\* computes NodeWalks directly for any other argument.
RECURSIVE SubLists(_)
SubLists(cs) ==
  IF Len(cs) = 0 THEN {<<>>}
  ELSE LET rest == SubLists(Tail(cs))
       IN rest \cup {<<Head(cs)>> \o r : r \in rest}

GridOf(m) == Val(Reshape(m.data, m.height, m.width))
TableSkeletons ==
  {SkeletonOf(GridOf(m)) : m \in {MsgAnnex, MsgWide, MsgDeadEnd, MsgOccupied}}
TableKeys ==
  UNION {{<<sk, cs, k>> : cs \in SubLists(CoordsOf(CornerPeaksOf(sk))), k \in 1..4} :
           sk \in TableSkeletons}
WalkTable ==
  {<<key, NodeWalks(key[2][key[3]], key[2], key[1])>> :
     key \in {e \in TableKeys : e[3] <= Len(e[2])}}

NodeOutcome(homeXY, coords, sk) ==
  LET hits == {e \in WalkTable :
                 e[1][2] = coords /\ e[1][2][e[1][3]] = homeXY /\ e[1][1] = sk}
  IN IF hits # {} THEN (CHOOSE e \in hits : TRUE)[2]
     ELSE NodeWalks(homeXY, coords, sk)

\* One pass over the graph (lines 218-222), given the outcome out[k] of the
\* walks of node k.  [err, graph]: every node gains what its walks found; an
\* exception ends the pass (and the request) at the first node whose walks
\* raise, with the nodes after it untouched.
\* A variant in which a pass takes back the references a node holds already
\* (the walks toggle them); C17 depends on the difference.
PassOutcomeToggling(graph, out) ==
  LET bad == {k \in 1..Len(graph) : out[k].err # ""}
  IN IF bad # {}
     THEN LET first == CHOOSE m \in bad : \A o \in bad : m <= o
          IN [err |-> out[first].err,
              graph |-> List([k \in 1..Len(graph) |->
                                IF k <= first
                                THEN [graph[k] EXCEPT !.neighbors = @ \cup out[k].found]
                                ELSE graph[k]],
                             Len(graph))]
     ELSE [err |-> "",
           graph |-> List([k \in 1..Len(graph) |->
                             [graph[k] EXCEPT !.neighbors =
                                (@ \ out[k].found) \cup (out[k].found \ @)]],
                          Len(graph))]

PassOutcome(graph, out) ==
  LET bad == {k \in 1..Len(graph) : out[k].err # ""}
  IN IF bad # {}
     THEN LET first == CHOOSE m \in bad : \A o \in bad : m <= o
          IN [err |-> out[first].err,
              graph |-> List([k \in 1..Len(graph) |->
                                IF k <= first
                                THEN [graph[k] EXCEPT !.neighbors = @ \cup out[k].found]
                                ELSE graph[k]],
                             Len(graph))]
     ELSE [err |-> "",
           graph |-> List([k \in 1..Len(graph) |->
                             [graph[k] EXCEPT !.neighbors = @ \cup out[k].found]],
                          Len(graph))]

AddNeighbors(graph, coords, sk) ==
  Bind(List([k \in 1..Len(graph) |->
               NodeOutcome(<<graph[k].x, graph[k].y>>, coords, sk)],
            Len(graph)),
       LAMBDA out : PassOutcome(graph, out))

\* lines 80-81: for i in range(10): self._add_neighbors(graph, coords).
\* r is [err, graph] so far; a pass that raised ends the loop.
RECURSIVE AddNeighborsTimes(_, _, _, _)
AddNeighborsTimes(n, r, coords, sk) ==
  IF n = 0 \/ r.err # "" THEN r
  ELSE Bind(AddNeighbors(r.graph, coords, sk),
            LAMBDA next : AddNeighborsTimes(n - 1, next, coords, sk))

(***************************************************************************)
(* _add_nodes (lines 200-210), one loop iteration: the node of line 207    *)
(* and the increment of line 209.                                          *)
(***************************************************************************)
NewNode(c, cnt) == [x |-> c[1], y |-> c[2], id |-> cnt, neighbors |-> {}]
\* A variant without the increment; C4 depends on the difference.
NextCountStuck(cnt) == cnt
NextCount(cnt) == cnt + 1

(***************************************************************************)
(* _set_ids (lines 133-148).  ids is the dictionary from coordinate to id  *)
(* that compute_graph keeps across both calls; lines 138-139 overwrite it  *)
(* with the graph's nodes (a later node wins).  Lines 143-148 rebuild each *)
(* neighbors set from its tuple entries only, node by node; a tuple that   *)
(* ids lacks raises KeyError at line 147, with the nodes before that one   *)
(* rebuilt already.  rev_ids (lines 140-141) is written and never read,    *)
(* and is left out.  [err, graph, ids].                                    *)
(***************************************************************************)
XY(node) == <<node.x, node.y>>

SetIds(graph, ids) ==
  LET here == {XY(graph[k]) : k \in 1..Len(graph)}
      Last(c) == CHOOSE k \in 1..Len(graph) :
                   /\ XY(graph[k]) = c
                   /\ \A j \in 1..Len(graph) : XY(graph[j]) = c => j <= k
      ids2 == [c \in (DOMAIN ids) \cup here |->
                 IF c \in here THEN graph[Last(c)].id ELSE ids[c]]
      Tuples(node) == {n \in node.neighbors : IsTuple(n)}
      missing == {k \in 1..Len(graph) : \E n \in Tuples(graph[k]) : n \notin DOMAIN ids2}
      Rebuilt(k) == [graph[k] EXCEPT !.neighbors = {IdRef(ids2[n]) : n \in Tuples(graph[k])}]
  IN IF missing # {}
     THEN LET first == CHOOSE m \in missing : \A o \in missing : m <= o
          IN [err |-> "KeyError",
              graph |-> List([k \in 1..Len(graph) |->
                                IF k < first THEN Rebuilt(k) ELSE graph[k]],
                             Len(graph)),
              ids |-> ids2]
     ELSE [err |-> "",
           graph |-> List([k \in 1..Len(graph) |-> Rebuilt(k)], Len(graph)),
           ids |-> ids2]

(***************************************************************************)
(* _make_graph_symmetrical (lines 150-161).  SymmetricalFrom runs the      *)
(* outer loop from index i on; the inner loop only changes graph[i], so    *)
(* one outer iteration adds to graph[i] the id of every other node whose   *)
(* neighbors hold graph[i]'s id.                                           *)
(***************************************************************************)
RECURSIVE SymmetricalFrom(_, _)
SymmetricalFrom(graph, i) ==
  IF i > Len(graph) THEN graph
  ELSE Bind([graph EXCEPT ![i].neighbors =
               @ \cup {IdRef(graph[j].id) :
                         j \in {o \in 1..Len(graph) :
                                  o # i /\ IdRef(graph[i].id) \in graph[o].neighbors}}],
            LAMBDA next : SymmetricalFrom(next, i + 1))

\* A variant that leaves the graph as the walks made it; C1 depends on the
\* difference.
MakeSymmetricalSkipped(graph) == graph

MakeSymmetrical(graph) == SymmetricalFrom(graph, 1)

(***************************************************************************)
(* _dist and _prune_graph (lines 163-197).  _dist is the Euclidean norm    *)
(* of an integer vector; "dist < thresh" is decided on the squares.        *)
(* ToRemoveFrom runs the loop of lines 180-186 from index i on.  Lines     *)
(* 193-195 keep graph[i] when the list index i (from 0) is not in          *)
(* to_remove, which holds node ids.                                        *)
(***************************************************************************)
DistLess(a, b, thresh) ==
  (a.x - b.x) * (a.x - b.x) + (a.y - b.y) * (a.y - b.y) < thresh * thresh

RECURSIVE ToRemoveFrom(_, _, _, _)
ToRemoveFrom(graph, i, to_remove, thresh) ==
  IF i > Len(graph) THEN to_remove
  ELSE IF graph[i].id \in to_remove
  THEN ToRemoveFrom(graph, i + 1, to_remove, thresh)
  ELSE Bind(to_remove \cup {graph[o].id :
                              o \in {j \in 1..Len(graph) :
                                       /\ graph[i] # graph[j]
                                       /\ DistLess(graph[j], graph[i], thresh)}},
            LAMBDA next : ToRemoveFrom(graph, i + 1, next, thresh))

\* lines 191-197, given to_remove: the nodes whose list index is not in it
Pruned(graph, to_remove) ==
  LET kept == SelectSeq(List([i \in 1..Len(graph) |-> i], Len(graph)),
                        LAMBDA i : (i - 1) \notin to_remove)
  IN List([k \in 1..Len(kept) |-> graph[kept[k]]], Len(kept))

PruneGraph(graph, thresh) ==
  Bind(ToRemoveFrom(graph, 1, {}, thresh), LAMBDA to_remove : Pruned(graph, to_remove))

\* _id_in_graph (lines 123-130)
IdInGraph(id, graph) == \E k \in 1..Len(graph) : graph[k].id = id

(***************************************************************************)
(* compute_graph, the part between node creation and pruning (lines        *)
(* 80-88): ten discovery passes, id resolution, symmetrization, pruning.   *)
(* [err, graph (the pruned graph), ids].                                   *)
(***************************************************************************)
\* line 84 (and 97): _set_ids on the outcome a of the walks, unless they raised
Resolve(a, ids) ==
  IF a.err # "" THEN [err |-> a.err, graph |-> a.graph, ids |-> ids]
  ELSE SetIds(a.graph, ids)

\* lines 86 and 88 on the outcome b of _set_ids, unless something raised
SymmetricalPruned(b) ==
  IF b.err # "" THEN b
  ELSE Bind(MakeSymmetrical(b.graph),
            LAMBDA g : [b EXCEPT !.graph = PruneGraph(g, PRUNE_THRESH)])

FirstPass(graph, coords, sk) ==
  Bind(AddNeighborsTimes(PASSES, [err |-> "", graph |-> graph], coords, sk),
       LAMBDA a : Bind(Resolve(a, <<>>), LAMBDA b : SymmetricalPruned(b)))

(***************************************************************************)
(* compute_graph after pruning (lines 91-109): rediscovery on the          *)
(* surviving nodes, second id resolution and symmetrization, and removal   *)
(* of the neighbors that are not ids of the pruned graph.  [err, graph].   *)
(***************************************************************************)
RemoveDangling(graph) ==
  List([k \in 1..Len(graph) |->
          [graph[k] EXCEPT !.neighbors = {n \in @ : IdInGraph(n[1], graph)}]],
       Len(graph))

\* lines 91-93
NodesOfInterest(pruned_graph) ==
  List([k \in 1..Len(pruned_graph) |-> XY(pruned_graph[k])], Len(pruned_graph))

\* lines 98 and 102-109 on the outcome b of the second _set_ids
SymmetricalCleaned(b) ==
  IF b.err # "" THEN [err |-> b.err, graph |-> b.graph]
  ELSE Bind(MakeSymmetrical(b.graph),
            LAMBDA g : [err |-> "", graph |-> RemoveDangling(g)])

\* A variant that returns the pruned graph as it is, with the neighbors the
\* first pass gave its nodes; C2 depends on the difference.
PostPruneSkipped(pruned_graph, ids, sk) == [err |-> "", graph |-> pruned_graph]

PostPrune(pruned_graph, ids, sk) ==
  Bind(NodesOfInterest(pruned_graph), LAMBDA nodes_of_interest :
    Bind(AddNeighbors(pruned_graph, nodes_of_interest, sk), LAMBDA a :
      Bind(Resolve(a, ids), LAMBDA b : SymmetricalCleaned(b))))

\* lines 112-118 for one node g: world coordinates, neighbors as a list (kept
\* here as the set of ints it holds; the order of the list is the set's).
ToWorld(g, resolution, offset) ==
  [x |-> g.x * resolution + offset[1],
   y |-> g.y * resolution + offset[2],
   id |-> g.id,
   neighbors |-> {n[1] : n \in g.neighbors}]

(***************************************************************************)
(* The state machine.                                                      *)
(*                                                                         *)
(* Server fields (lines 26-30): map, map_resolution, map_offset, skel,     *)
(* count.  The subscriber runs _map_callback in one context (sub); rospy   *)
(* runs _graph_callback for each service call in a context of its own      *)
(* (req[t]).  A context's steps are cut where it reads or writes a Server  *)
(* field, so that the other context's steps can fall in between.           *)
(*                                                                         *)
(* req[t]: pc and the locals of compute_graph (grid: the array read at     *)
(* line 63, until line 69 has used it; coords, graph, ids, the loop index  *)
(* k; cnt inside line 209, rd and nx inside lines 114-115), the handler's  *)
(* outcome (resp: the TriggerResponse it returned; raised: the exception   *)
(* that left it), and what the properties                                  *)
(* read back: waited (the call arrived while map was None), cells (the     *)
(* grid read at line 63), pixels (the returned nodes' pixel coordinates).  *)
(* issued is the sequence of ids given to nodes by _add_nodes, hist the    *)
(* sequence of graphs returned; started and delivered count the service    *)
(* calls and the map messages.                                             *)
(***************************************************************************)
VARIABLES map, map_resolution, map_offset, skel, count,
          sub, req, started, delivered, issued, hist,
          probe        \* the last direct call of a helper: its arguments and result

vars == <<map, map_resolution, map_offset, skel, count,
          sub, req, started, delivered, issued, hist, probe>>

MaxIngest == 2
MaxRequests == 2

Contexts == {1, 2}
\* Service calls that do not overlap: one calling context.
Serial == {1}

ReqInit ==
  [pc |-> "idle", coords |-> <<>>, graph |-> <<>>, ids |-> <<>>, k |-> 0,
   resp |-> None, raised |-> "", waited |-> FALSE, cells |-> "", pixels |-> <<>>,
   grid |-> None, cnt |-> None, rd |-> None, nx |-> None]

\* __init__ (lines 25-33)
Init ==
  /\ map = None
  /\ map_resolution = None
  /\ map_offset = None
  /\ skel = None
  /\ count = 0
  /\ sub = [pc |-> "idle", msg |-> None, before |-> None, last |-> ""]
  /\ req = [t \in Contexts |-> ReqInit]
  /\ started = 0
  /\ delivered = 0
  /\ issued = <<>>
  /\ hist = <<>>
  /\ probe = [op |-> "none"]

(***************************************************************************)
(* _map_callback (lines 35-43).                                            *)
(***************************************************************************)
\* The subscriber takes message m and enters the callback.
Deliver(m) ==
  /\ sub.pc = "idle"
  /\ delivered < MaxIngest
  /\ delivered' = delivered + 1
  /\ sub' = [pc |-> "resolution", msg |-> Some(m),
             before |-> Some(<<map, map_resolution, map_offset>>), last |-> ""]
  /\ UNCHANGED <<map, map_resolution, map_offset, skel, count, req, started, issued, hist, probe>>

\* A variant of lines 37-39 that leaves self._map_resolution as it is; C19
\* depends on the difference.
SetResolutionSkipped ==
  /\ sub.pc = "resolution"
  /\ sub' = [sub EXCEPT !.pc = "offset"]
  /\ UNCHANGED <<map, map_resolution, map_offset, skel, count, req, started, delivered, issued, hist, probe>>

\* lines 37-39
SetResolution ==
  /\ sub.pc = "resolution"
  /\ map_resolution' = Some(Val(sub.msg).resolution)
  /\ sub' = [sub EXCEPT !.pc = "offset"]
  /\ UNCHANGED <<map, map_offset, skel, count, req, started, delivered, issued, hist, probe>>

\* line 40
SetOffset ==
  /\ sub.pc = "offset"
  /\ map_offset' = Some(Val(sub.msg).origin)
  /\ sub' = [sub EXCEPT !.pc = "reshape"]
  /\ UNCHANGED <<map, map_resolution, skel, count, req, started, delivered, issued, hist, probe>>

\* lines 42-43: np.reshape raises ValueError and the callback ends, or the
\* grid is stored.
StoreMap ==
  /\ sub.pc = "reshape"
  /\ LET m == Val(sub.msg)
         grid == Reshape(m.data, m.height, m.width)
     IN IF grid = None
        THEN /\ sub' = [sub EXCEPT !.pc = "idle", !.last = "ValueError"]
             /\ map' = map
        ELSE /\ sub' = [sub EXCEPT !.pc = "idle", !.last = "stored"]
             /\ map' = grid
  /\ UNCHANGED <<map_resolution, map_offset, skel, count, req, started, delivered, issued, hist, probe>>

(***************************************************************************)
(* _graph_callback (lines 45-54) and compute_graph (lines 56-120).         *)
(***************************************************************************)
\* An exception leaves compute_graph and _graph_callback (neither catches):
\* the handler ends without a TriggerResponse.
Raise(t, err) ==
  req' = [req EXCEPT ![t].pc = "idle", ![t].raised = err]

\* A service call arrives: lines 49-50 up to the call of compute_graph.
Request(t) ==
  /\ req[t].pc = "idle"
  /\ started < MaxRequests
  /\ started' = started + 1
  /\ req' = [req EXCEPT ![t] = [ReqInit EXCEPT !.pc = "poll", !.waited = (map = None)]]
  /\ UNCHANGED <<map, map_resolution, map_offset, skel, count, sub, delivered, issued, hist, probe>>

\* A variant of the loop condition that never holds (no wait); C6 depends on
\* the difference.
MapIsNoneNever(m) == FALSE

\* line 58: the loop condition "self._map is None"
MapIsNone(m) == m = None

\* line 58: one evaluation of the while condition
PollMap(t) ==
  /\ req[t].pc = "poll"
  /\ req' = [req EXCEPT ![t].pc = IF MapIsNone(map) THEN "spin" ELSE "read_map"]
  /\ UNCHANGED <<map, map_resolution, map_offset, skel, count, sub, started, delivered, issued, hist, probe>>

\* line 59: pass, and back to the condition
Spin(t) ==
  /\ req[t].pc = "spin"
  /\ req' = [req EXCEPT ![t].pc = "poll"]
  /\ UNCHANGED <<map, map_resolution, map_offset, skel, count, sub, started, delivered, issued, hist, probe>>

\* lines 61-68: self._map is read (binary_dilation raises on None); the
\* distance transform of it is a local of the request.
ReadMap(t) ==
  /\ req[t].pc = "read_map"
  /\ IF map = None
     THEN Raise(t, "TypeError")
     ELSE req' = [req EXCEPT ![t].pc = "skeletonize", ![t].grid = map,
                             ![t].cells = Val(map).cells]
  /\ UNCHANGED <<map, map_resolution, map_offset, skel, count, sub, started, delivered, issued, hist, probe>>

\* line 69: the skeleton of the grid read at line 63 is stored in self._skel
Skeletonize(t) ==
  /\ req[t].pc = "skeletonize"
  /\ skel' = Some(SkeletonOf(Val(req[t].grid)))
  /\ req' = [req EXCEPT ![t].pc = "corners", ![t].grid = None]
  /\ UNCHANGED <<map, map_resolution, map_offset, count, sub, started, delivered, issued, hist, probe>>

\* lines 70-76: corners of self._skel, as (x, y) coordinates; then
\* _add_nodes starts with an empty graph (line 204).
Corners(t) ==
  /\ req[t].pc = "corners"
  /\ LET coords == CoordsOf(CornerPeaksOf(Val(skel)))
     IN req' = [req EXCEPT ![t].coords = coords, ![t].graph = <<>>, ![t].k = 1,
                           ![t].pc = IF Len(coords) = 0 THEN "discover" ELSE "add_node"]
  /\ UNCHANGED <<map, map_resolution, map_offset, skel, count, sub, started, delivered, issued, hist, probe>>

\* lines 206-208: the node for coords[k] takes self._count as its id
AddNode(t) ==
  /\ req[t].pc = "add_node"
  /\ req' = [req EXCEPT ![t].graph = Append(@, NewNode(req[t].coords[req[t].k], count)),
                        ![t].pc = "incr"]
  /\ issued' = Append(issued, count)
  /\ UNCHANGED <<map, map_resolution, map_offset, skel, count, sub, started, delivered, hist, probe>>

\* line 209, self._count += 1: the read of self._count
IncrRead(t) ==
  /\ req[t].pc = "incr"
  /\ req' = [req EXCEPT ![t].cnt = Some(count), ![t].pc = "incr_write"]
  /\ UNCHANGED <<map, map_resolution, map_offset, skel, count, sub, started, delivered, issued, hist, probe>>

\* line 209, self._count += 1: the write of the value read plus one, and
\* the next loop iteration or line 210
Incr(t) ==
  /\ req[t].pc = "incr_write"
  /\ count' = NextCount(Val(req[t].cnt))
  /\ req' = [req EXCEPT ![t].k = @ + 1, ![t].cnt = None,
                        ![t].pc = IF req[t].k = Len(req[t].coords)
                                  THEN "discover" ELSE "add_node"]
  /\ UNCHANGED <<map, map_resolution, map_offset, skel, sub, started, delivered, issued, hist, probe>>

\* lines 80-93: the walks read self._skel; r is what lines 80-88 come to.
\* Only line 69 writes self._skel: with one calling context no write falls
\* between the reads, and with several (one map published) every write stores
\* the skeleton the field holds already.
Discovered(t, r) ==
  IF r.err # ""
  THEN Raise(t, r.err)
  ELSE req' = [req EXCEPT ![t].graph = r.graph, ![t].ids = r.ids,
                          ![t].pc = "rediscover"]

Discover(t) ==
  /\ req[t].pc = "discover"
  /\ \E r \in {FirstPass(req[t].graph, req[t].coords, Val(skel))} : Discovered(t, r)
  /\ UNCHANGED <<map, map_resolution, map_offset, skel, count, sub, started, delivered, issued, hist, probe>>

\* lines 95-109: the walks read self._skel; r is what lines 95-109 come to
Rediscovered(t, r) ==
  IF r.err # ""
  THEN Raise(t, r.err)
  ELSE req' = [req EXCEPT ![t].graph = r.graph, ![t].k = 1,
                          ![t].pixels = NodesOfInterest(r.graph),
                          ![t].pc = IF Len(r.graph) = 0 THEN "return" ELSE "transform"]

Rediscover(t) ==
  /\ req[t].pc = "rediscover"
  /\ \E r \in {PostPrune(req[t].graph, req[t].ids, Val(skel))} : Rediscovered(t, r)
  /\ UNCHANGED <<map, map_resolution, map_offset, skel, count, sub, started, delivered, issued, hist, probe>>

\* lines 111-118, one loop iteration for node k.  Lines 114 and 115 each
\* read self._map_resolution and then self._map_offset (arithmetic on None
\* and None[0] raise TypeError); rd is the resolution a line has read, nx
\* the value of line 114.
\* line 114, x*self._map_resolution
TransformResolutionX(t) ==
  /\ req[t].pc = "transform"
  /\ IF map_resolution = None
     THEN Raise(t, "TypeError")
     ELSE req' = [req EXCEPT ![t].rd = map_resolution, ![t].pc = "offset_x"]
  /\ UNCHANGED <<map, map_resolution, map_offset, skel, count, sub, started, delivered, issued, hist, probe>>

\* line 114, + self._map_offset[0]
TransformOffsetX(t) ==
  /\ req[t].pc = "offset_x"
  /\ IF map_offset = None
     THEN Raise(t, "TypeError")
     ELSE req' = [req EXCEPT ![t].nx = Some(ToWorld(req[t].graph[req[t].k],
                                                    Val(req[t].rd), Val(map_offset)).x),
                             ![t].pc = "resolution_y"]
  /\ UNCHANGED <<map, map_resolution, map_offset, skel, count, sub, started, delivered, issued, hist, probe>>

\* line 115, y*self._map_resolution
TransformResolutionY(t) ==
  /\ req[t].pc = "resolution_y"
  /\ IF map_resolution = None
     THEN Raise(t, "TypeError")
     ELSE req' = [req EXCEPT ![t].rd = map_resolution, ![t].pc = "offset_y"]
  /\ UNCHANGED <<map, map_resolution, map_offset, skel, count, sub, started, delivered, issued, hist, probe>>

\* line 115, + self._map_offset[1], and lines 116-118
Transform(t) ==
  /\ req[t].pc = "offset_y"
  /\ IF map_offset = None
     THEN Raise(t, "TypeError")
     ELSE req' = [req EXCEPT ![t].graph[req[t].k] =
                               [ToWorld(@, Val(req[t].rd), Val(map_offset))
                                  EXCEPT !.x = Val(req[t].nx)],
                             ![t].k = @ + 1, ![t].rd = None, ![t].nx = None,
                             ![t].pc = IF req[t].k = Len(req[t].graph)
                                       THEN "return" ELSE "transform"]
  /\ UNCHANGED <<map, map_resolution, map_offset, skel, count, sub, started, delivered, issued, hist, probe>>

\* The ids and neighbors of the nodes of a graph, in order.
Topology(graph) ==
  List([i \in 1..Len(graph) |-> [id |-> graph[i].id, neighbors |-> graph[i].neighbors]],
       Len(graph))

\* lines 119-120 and 50-54: the graph is returned, serialized and sent back
\* in a TriggerResponse with success = True
Return(t) ==
  /\ req[t].pc = "return"
  /\ req' = [req EXCEPT ![t].pc = "idle",
                        ![t].resp = Some([success |-> TRUE, message |-> req[t].graph])]
  /\ hist' = Append(hist, [cells |-> req[t].cells, graph |-> Topology(req[t].graph),
                           pixels |-> req[t].pixels, waited |-> req[t].waited,
                           keypoints |-> Len(req[t].coords)])
  /\ UNCHANGED <<map, map_resolution, map_offset, skel, count, sub, started, delivered, issued, probe>>

\* The steps of the subscriber context inside _map_callback.
SubStep == SetResolution \/ SetOffset \/ StoreMap

\* The steps of a calling context inside _graph_callback.
ReqStep(t) ==
  \/ PollMap(t) \/ Spin(t) \/ ReadMap(t) \/ Skeletonize(t) \/ Corners(t)
  \/ AddNode(t) \/ IncrRead(t) \/ Incr(t)
  \/ Discover(t) \/ Rediscover(t)
  \/ TransformResolutionX(t) \/ TransformOffsetX(t) \/ TransformResolutionY(t)
  \/ Transform(t) \/ Return(t)

Next ==
  \/ \E m \in Msgs : Deliver(m)
  \/ SubStep
  \/ \E t \in Serial : Request(t) \/ ReqStep(t)

Spec == Init /\ [][Next]_vars

\* The map topic publishes one message (a latched map).
DeliverOnce(m) == delivered = 0 /\ Deliver(m)

\* A call runs in the free context of the lowest number (the contexts are
\* interchangeable).
Call(t) ==
  /\ \A u \in Contexts : u < t => req[u].pc # "idle"
  /\ Request(t)

\* Service calls from several clients: rospy runs each call's handler in a
\* thread of its own, and _graph_callback takes no lock.
NextConcurrent ==
  \/ \E m \in ConcMsgs : DeliverOnce(m)
  \/ SubStep
  \/ \E t \in Contexts : Call(t) \/ ReqStep(t)

ConcSpec == Init /\ [][NextConcurrent]_vars

\* The subscriber thread and the service threads are scheduled fairly;
\* messages and service calls arrive as the environment pleases.
FairSpec == Spec /\ WF_vars(SubStep) /\ \A t \in Serial : WF_vars(ReqStep(t))

(***************************************************************************)
(* The helpers called directly.  eight_neighbors, _traverse and            *)
(* _add_neighbors read nothing of the server but self._skel, which is an   *)
(* argument here; probe records the arguments and the result of a call.    *)
(* A behaviour makes one call.  The arguments are drawn from small grids:  *)
(*   eight_neighbors  every shape with sides up to MaxSide, every pixel;   *)
(*   _traverse        the grids of WalkShapes (square and not);            *)
(*   _add_neighbors   the grid PassShape, the smallest square grid with    *)
(*                    two keypoints off the border;                        *)
(* the skeleton is empty or a straight run of up to MaxRun pixels, and     *)
(* there are one or two keypoints.  _set_ids reads nothing of the server.  *)
(***************************************************************************)
MaxSide == 4
MaxRun == 2

\* The pixels (x, y) of an array of shape (rows, cols): x < cols, y < rows.
Pixels(shape) == {<<x, y>> : x \in 0..(shape[2] - 1), y \in 0..(shape[1] - 1)}

ProbeShapes == {<<r, c>> : r \in 1..MaxSide, c \in 1..MaxSide}
WalkShapes == {<<3, 3>>, <<2, 3>>, <<3, 2>>}
PassShape == <<4, 4>>
SetIdsShape == <<1, 2>>

\* The n pixels from p on in direction d.
Run(p, d, n) == {<<p[1] + i * d[1], p[2] + i * d[2]>> : i \in 0..(n - 1)}
RunDirs == {<<1, 0>>, <<0, 1>>, <<1, 1>>, <<-1, 1>>}
SkeletonsOn(shape) ==
  {[shape |-> shape, pix |-> q] :
     q \in {{}} \cup {r \in {Run(p, d, n) : p \in Pixels(shape), d \in RunDirs,
                                            n \in 1..MaxRun} :
                       r \subseteq Pixels(shape)}}
ProbeCoords(shape) ==
  {<<h>> : h \in Pixels(shape)}
    \cup {<<h, k>> : h \in Pixels(shape), k \in Pixels(shape)}
\* The keypoint lists of a pass: one list for every set of one or two
\* keypoints, in row-major order (by y, then x).
RowMajor(h, k) == h[2] < k[2] \/ (h[2] = k[2] /\ h[1] < k[1])
PassCoords(shape) ==
  {<<h>> : h \in Pixels(shape)}
    \cup {cs \in {<<h, k>> : h \in Pixels(shape), k \in Pixels(shape)} :
            RowMajor(cs[1], cs[2])}

\* _add_nodes on coords with the counter at 0 (lines 204-210).
NodesOf(coords) == List([i \in 1..Len(coords) |-> NewNode(coords[i], i - 1)], Len(coords))

ServerVars == <<map, map_resolution, map_offset, skel, count,
                sub, req, started, delivered, issued, hist>>

\* Server.eight_neighbors(c, map)
ProbeEightNeighbors ==
  probe.op = "none" /\ \E shape \in ProbeShapes : \E c \in Pixels(shape) :
    /\ probe' = [op |-> "eight_neighbors", c |-> c, shape |-> shape,
                 out |-> EightNeighbors(c, shape)]
    /\ UNCHANGED ServerVars

\* self._traverse(start, home, coords) as _add_neighbors calls it: home is a
\* node at the first keypoint, start one of its neighbours.
ProbeTraverse ==
  probe.op = "none" /\
  \E sk \in UNION {SkeletonsOn(shape) : shape \in WalkShapes} :
   \E coords \in ProbeCoords(sk.shape) :
    \E start \in {n \in Pixels(sk.shape) : InList(n, EightNeighbors(coords[1], sk.shape))} :
      /\ probe' = [op |-> "_traverse", start |-> start, home |-> coords[1],
                   coords |-> coords, sk |-> sk,
                   out |-> Traverse(start, coords[1], coords, sk)]
      /\ UNCHANGED ServerVars

\* self._add_neighbors(graph, coords) on the graph _add_nodes makes of coords,
\* once and PASSES times.
ProbeAddNeighbors ==
  probe.op = "none" /\
  \E sk \in SkeletonsOn(PassShape) : \E coords \in PassCoords(sk.shape) :
    /\ probe' = [op |-> "_add_neighbors", coords |-> coords, sk |-> sk,
                 once |-> AddNeighbors(NodesOf(coords), coords, sk),
                 all |-> AddNeighborsTimes(PASSES, [err |-> "", graph |-> NodesOf(coords)],
                                           coords, sk)]
      /\ UNCHANGED ServerVars

\* The entries a neighbors set of a node of graph can hold: the coordinate of
\* a node (as a walk adds it) or the id of a node (as _set_ids leaves it).
RefsOf(graph) ==
  {XY(graph[j]) : j \in 1..Len(graph)} \cup {IdRef(graph[j].id) : j \in 1..Len(graph)}

\* The graph with the neighbors set nbrs[k] in node k.
WithNeighbors(graph, nbrs) ==
  List([k \in 1..Len(graph) |-> [graph[k] EXCEPT !.neighbors = nbrs[k]]], Len(graph))

\* self._set_ids(graph, ids, rev_ids) with empty dictionaries, on a graph of
\* one or two nodes on the grid SetIdsShape whose neighbors hold any of the
\* coordinates and ids of the graph's nodes.
ProbeSetIds ==
  probe.op = "none" /\
  \E coords \in PassCoords(SetIdsShape) :
    \E nbrs \in [1..Len(coords) -> SUBSET RefsOf(NodesOf(coords))] :
      \E graph \in {WithNeighbors(NodesOf(coords), nbrs)} :
        /\ probe' = [op |-> "_set_ids", graph |-> graph, out |-> SetIds(graph, <<>>)]
        /\ UNCHANGED ServerVars

PureNext == ProbeSetIds \/ ProbeEightNeighbors \/ ProbeTraverse \/ ProbeAddNeighbors

PureSpec == Init /\ [][PureNext]_vars

(***************************************************************************)
(* Properties.  hist[h] is the h-th graph compute_graph returned: graph    *)
(* holds the ids and neighbors (as ids) of the nodes as returned, pixels   *)
(* their keypoints in pixel coordinates, in the same order.  The response  *)
(* itself, with world coordinates, is req[t].resp until the next call.     *)
(***************************************************************************)
Returned == 1..Len(hist)

Symmetric(g) ==
  \A i, j \in 1..Len(g) : g[j].id \in g[i].neighbors <=> g[i].id \in g[j].neighbors

\* C1: in every graph compute_graph returns, after any ingestions and earlier
\* requests, b.id is in a.neighbors if and only if a.id is in b.neighbors,
\* for all nodes a and b of the graph.
C1_Symmetry == \A h \in Returned : Symmetric(hist[h].graph)

\* A graph returned by a later request in which some node has a neighbor.
C1_Witness ==
  \E h \in Returned :
    /\ h >= 2
    /\ \E i, j \in 1..Len(hist[h].graph) :
         i # j /\ hist[h].graph[j].id \in hist[h].graph[i].neighbors

NoDangling(g) ==
  \A i \in 1..Len(g) : \A n \in g[i].neighbors : \E j \in 1..Len(g) : g[j].id = n

\* C2: in every graph compute_graph returns, every id in a node's neighbors is
\* the id of a node of that graph, although pruning removed nodes that the
\* survivors had as neighbors.
C2_NoDanglingEdges == \A h \in Returned : NoDangling(hist[h].graph)

\* A returned graph that lost a keypoint to pruning and still has an edge.
C2_Witness ==
  \E h \in Returned :
    /\ Len(hist[h].graph) < hist[h].keypoints
    /\ \E i \in 1..Len(hist[h].graph) : hist[h].graph[i].neighbors # {}

PixelDistLess(p, q, thresh) ==
  (p[1] - q[1]) * (p[1] - q[1]) + (p[2] - q[2]) * (p[2] - q[2]) < thresh * thresh

\* C3: any two distinct nodes of a returned graph, in the first request and in
\* every later one, have keypoints at least 100 pixels apart.
C3_PruneDistance ==
  \A h \in Returned :
    \A i, j \in 1..Len(hist[h].pixels) :
      i # j => ~PixelDistLess(hist[h].pixels[i], hist[h].pixels[j], 100)

\* C4: over requests that do not overlap, the ids given to nodes are 0, 1, 2,
\* ... in the order of creation: the first node gets 0, each later one the
\* previous id plus one, and none is given twice, within a request or across
\* requests.
C4_PersistentIds == \A i \in 1..Len(issued) : issued[i] = i - 1

\* Nodes were created in two requests, the first of which had a node pruned.
C4_Witness ==
  /\ Len(hist) >= 1
  /\ Len(hist[1].graph) < hist[1].keypoints
  /\ Len(issued) > hist[1].keypoints

Edges(g) == {<<i, j>> \in (1..Len(g)) \X (1..Len(g)) : g[j].id \in g[i].neighbors}

\* C5: for a fixed grid, every request returns the same node coordinates and
\* the same adjacency, up to the values of the ids.
C5_Determinism ==
  \A h1, h2 \in Returned :
    hist[h1].cells = hist[h2].cells =>
      /\ hist[h1].pixels = hist[h2].pixels
      /\ Edges(hist[h1].graph) = Edges(hist[h2].graph)

\* C6: a request issued while no grid has been ingested gets no response
\* before the first successful ingestion: as long as the map slot is empty
\* the request is still at the wait of lines 58-59 and has no response.
C6_NoResponseBeforeMap ==
  \A t \in Serial :
    (req[t].waited /\ map = None) =>
      (req[t].pc \in {"poll", "spin"} /\ req[t].resp = None)

\* A request issued with the map slot empty has got its response.
C6_Witness == \E t \in Serial : req[t].waited /\ req[t].resp # None

\* C7: under fair scheduling of the subscriber and the calling contexts, a
\* request that is pending while a grid is stored eventually gets a response
\* (a request that waits gets there when a well-formed message is stored).
C7_EventuallyResponds ==
  \A t \in Serial : (req[t].pc # "idle" /\ map # None) ~> (req[t].resp # None)

\* C8: while no grid is stored, a pending request is suspended: its context
\* has no enabled step.
C8_BlockingWait ==
  \A t \in Serial : (req[t].pc # "idle" /\ map = None) => ~ENABLED ReqStep(t)

\* C9: after _map_callback rejected a message whose data length is not
\* width * height, the stored cells, resolution and offset are what they were
\* before the message.
C9_RejectedLeavesGrid ==
  sub.last = "ValueError" => <<map, map_resolution, map_offset>> = Val(sub.before)

\* C10: a request in which a step of the pipeline raised has returned a
\* response with success = false.
C10_FailureResponse ==
  \A t \in Serial :
    req[t].raised # "" => (req[t].resp # None /\ ~Val(req[t].resp).success)

\* The well-formed message whose cells a request read at line 63.
IngestedAs(cells) ==
  CHOOSE m \in Msgs : m.data.cells = cells /\ Reshape(m.data, m.height, m.width) # None

\* C11: the resolution and offset applied to every node of a response are
\* those of the message whose cells the response's skeleton and keypoints
\* were computed from.
C11_ConsistentSnapshot ==
  \A t \in Serial :
    req[t].resp # None =>
      \A i \in 1..Len(Val(req[t].resp).message) :
        /\ Val(req[t].resp).message[i].x =
             req[t].pixels[i][1] * IngestedAs(req[t].cells).resolution
               + IngestedAs(req[t].cells).origin[1]
        /\ Val(req[t].resp).message[i].y =
             req[t].pixels[i][2] * IngestedAs(req[t].cells).resolution
               + IngestedAs(req[t].cells).origin[2]

\* The request of context t is past the wait and has not left compute_graph.
InPipeline(t) == req[t].pc \notin {"idle", "poll", "spin"}

\* C12: at most one pipeline executes at a time, also when two requests
\* arrive concurrently, so that the shared counter gives no id to two nodes.
C12_SinglePipeline ==
  /\ \A t1, t2 \in Contexts : t1 # t2 => ~(InPipeline(t1) /\ InPipeline(t2))
  /\ \A i, j \in 1..Len(issued) : i # j => issued[i] # issued[j]

\* after is what id resolution made of before: every coordinate entry is
\* replaced by the id of the node at that coordinate, every id entry is kept.
ResolvedKeepingIds(before, after) ==
  \A k \in 1..Len(before) :
    \A n \in before[k].neighbors :
      IF IsTuple(n)
      THEN \E j \in 1..Len(before) :
             XY(before[j]) = n /\ IdRef(before[j].id) \in after[k].neighbors
      ELSE n \in after[k].neighbors

\* C13: _set_ids replaces the coordinate entries of every neighbors set by the
\* ids of the nodes at those coordinates and keeps the entries that are ids
\* already: every id in a node's neighbors before the call is there after it.
C13_SetIdsKeepsIds ==
  (probe.op = "_set_ids" /\ probe.out.err = "") =>
    ResolvedKeepingIds(probe.graph, probe.out.graph)

\* The pixels p and q of a grid touch: they differ, by at most one in x and y.
Adjacent(p, q) ==
  /\ p # q
  /\ p[1] - q[1] \in {-1, 0, 1}
  /\ p[2] - q[2] \in {-1, 0, 1}

\* C14: on a grid of any shape, every coordinate eight_neighbors returns for a
\* pixel of the grid is a pixel of the grid, touches the pixel and is not the
\* pixel itself.
C14_NeighborsInGrid ==
  probe.op = "eight_neighbors" =>
    \A i \in 1..8 :
      probe.out[i] # None =>
        /\ probe.out[i] \in Pixels(probe.shape)
        /\ Adjacent(probe.out[i], probe.c)

\* The skeleton-true pixels that a chain of touching skeleton-true pixels
\* joins to a pixel of S.
RECURSIVE Closure(_, _)
Closure(S, sk) ==
  LET T == S \cup {p \in sk.pix : \E q \in S : Adjacent(p, q)}
  IN IF T = S THEN S ELSE Closure(T, sk)

\* h touches k, or a chain of touching skeleton-true pixels leads from a
\* pixel that touches h to a pixel that touches k.
ChainBetween(h, k, sk) ==
  \/ Adjacent(h, k)
  \/ \E p \in Closure({q \in sk.pix : Adjacent(q, h)}, sk) : Adjacent(p, k)

\* C15: a walk links home only to a keypoint other than home that the
\* skeleton connects to it: there is a chain of touching pixels from home to
\* the linked keypoint whose intermediate pixels are all skeleton-true.
C15_LinksThroughSkeleton ==
  (probe.op = "_traverse" /\ probe.out.kind = "found") =>
    /\ InList(probe.out.at, probe.coords)
    /\ probe.out.at # probe.home
    /\ ChainBetween(probe.home, probe.out.at, probe.sk)

\* C16: every walk ends in one of two ways: at the first keypoint other than
\* home, which it adds to home's neighbors, or with the reachable pixels
\* exhausted and nothing added.
C16_WalkTerminates ==
  probe.op = "_traverse" =>
    \/ /\ probe.out.kind = "found"
       /\ InList(probe.out.at, probe.coords)
       /\ probe.out.at # probe.home
    \/ /\ probe.out.kind = "exhausted"
       /\ probe.out.at = None

\* C17: ten passes of _add_neighbors over a graph leave it as one pass does:
\* a further pass adds no neighbor reference that the first did not add (and
\* a pass that raises does so in the first pass).
C17_PassIdempotent ==
  probe.op = "_add_neighbors" => probe.all = probe.once

\* A pass that raised nothing and linked two keypoints to each other.
C17_Witness ==
  /\ probe.op = "_add_neighbors"
  /\ probe.once.err = ""
  /\ Len(probe.coords) = 2
  /\ \A k \in 1..2 : probe.once.graph[k].neighbors # {}
  /\ probe.all = probe.once

\* The pixel c lies in the first or last row or column of the grid.
OnBorder(c, shape) ==
  \/ c[1] \in {0, shape[2] - 1}
  \/ c[2] \in {0, shape[1] - 1}

\* C18: a pass over a graph with a keypoint in the first or last row or
\* column of the grid raises no error.
C18_BorderKeypoints ==
  ( /\ probe.op = "_add_neighbors"
    /\ \E i \in 1..Len(probe.coords) : OnBorder(probe.coords[i], probe.sk.shape) )
  => probe.once.err = ""

\* C19: whenever the stored map is set, the stored resolution and offset are
\* set as well, and a request that applies the coordinate transform finds
\* both set.
C19_MapImpliesScale ==
  /\ map # None => (map_resolution # None /\ map_offset # None)
  /\ \A t \in Serial :
       req[t].pc \in {"transform", "offset_x", "resolution_y", "offset_y"} =>
         (map_resolution # None /\ map_offset # None)

\* A request that arrived before any map, was released by the first
\* ingestion and is about to transform a node.
C19_Witness ==
  /\ req[1].pc = "transform"
  /\ req[1].waited
  /\ delivered = 1
  /\ map # None

\* C20: no returned graph has a self-loop: no node's id is among the node's
\* own neighbors (the keypoints of a grid have distinct coordinates).
C20_NoSelfLoop ==
  \A h \in Returned :
    \A i \in 1..Len(hist[h].graph) :
      hist[h].graph[i].id \notin hist[h].graph[i].neighbors

\* A returned graph of several nodes in which every node has a neighbor.
C20_Witness ==
  \E h \in Returned :
    /\ Len(hist[h].graph) >= 2
    /\ \A i \in 1..Len(hist[h].graph) :
         /\ hist[h].graph[i].neighbors # {}
         /\ hist[h].graph[i].id \notin hist[h].graph[i].neighbors

====
